---- MODULE Spec2Model ----
(***************************************************************************)
(* GoslingManager (src/src/gosling-manager.ts): the supervisor of Goose    *)
(* child processes with its circuit breaker.                               *)
(*                                                                         *)
(* The registry `goslings` is the Map of the class in insertion order; a   *)
(* gosling's id is its index.  `procs` are the live child processes: each  *)
(* keeps the handlers bound to it at spawn, which close over the gosling   *)
(* record of `owner`, whether or not it is still that gosling's `process`. *)
(* A child that has exited emits nothing more, so its slot is free again;  *)
(* a gosling whose ChildProcess object is that of an exited child has      *)
(* process = Exited.  The event loop serialises callbacks, so every        *)
(* handler and every synchronous stretch of an async method is one action; *)
(* sendPromptToGosling is split at its only await (the settle delay).      *)
(***************************************************************************)
EXTENDS Integers, Sequences, FiniteSets, TLC

\* ------------------------------------------------------------- bounds
\* Accepted creates stop at this registry size.
MaxGoslings == 2
\* Spawns stop at this number of live child processes.
MaxProcs == 2
\* Appends stop at this output length when no ceiling applies.
MaxOutputLen == 2
\* Accepted prompts stop at this promptCount when no ceiling applies.
MaxPromptCount == 3
\* stderr / error-event appends stop at this error-buffer length.
MaxErrorLen == 1
\* sendPromptToGosling calls suspended in the settle delay at one time.
MaxPending == 1
\* The clock stops at this many minutes after construction.
MaxTime == 2
\* The outputs paged by getGoslingOutput have at most this many characters.
MaxPageChars == 4

\* ------------------------------------------------------------- inputs
NL == "\n"
Chars == {"a", NL}
\* stdout chunks: data.toString() of one "data" event
Chunks == {<<"a">>, <<"a", "a">>}
\* the prompts of runGoose and of sendPromptToGosling
Prompts == {"p"}
FollowUps == {"q"}
\* exit codes: 0, a failure code, and NullCode for null (ended by a signal)
NullCode == -1
ExitCodes == {0, 1, NullCode}

Statuses == {"running", "completed", "error"}

VARIABLES
    goslings,        \* registry: sequence of Gosling records, id = index
    procs,           \* child processes spawned so far
    circuitBreaker,  \* CircuitBreakerConfig
    runtimeTimers,   \* pending one-shot runtime timers, by gosling id
    pending,         \* sendPromptToGosling calls suspended in the settle delay
    ret,             \* what the API call made in the latest step returned
    io,              \* the calls the latest step made on child processes
    now,             \* new Date(), in minutes since construction
    autoTerminateInterval  \* how many setInterval timers of the idle check are active

vars == <<goslings, procs, circuitBreaker, runtimeTimers, pending, ret, io,
          now, autoTerminateInterval>>

\* ------------------------------------------------------------- strings
\* String.prototype.substring(0, n) for 0 <= n
Substring0(text, n) ==
    IF n >= Len(text) THEN text ELSE SubSeq(text, 1, n)

\* text.split('\n').length - 1
RECURSIVE CountNewlines(_)
CountNewlines(text) ==
    IF text = <<>> THEN 0
    ELSE (IF Head(text) = NL THEN 1 ELSE 0) + CountNewlines(Tail(text))

\* ------------------------------------------------------------- registry
Ids == 1..Len(goslings)

\* getAllGoslings().filter(g => g.status === "running").length
ActiveCount(gs) == Cardinality({i \in 1..Len(gs) : gs[i].status = "running"})

\* ------------------------------------------------------------- config
ConfigFields == {"maxActiveGoslings", "maxTotalGoslings", "maxRuntimeMinutes",
                 "maxOutputSizeBytes", "maxPromptsPerGosling",
                 "autoTerminateIdleMinutes", "enabled"}

\* The configurations a manager is constructed with: the constructor's
\* defaults overridden by its argument, at the scale of the bounds.
InitConfigs ==
    [maxActiveGoslings : {1, 2}, maxTotalGoslings : {2},
     maxRuntimeMinutes : {0, 1}, maxOutputSizeBytes : {2},
     maxPromptsPerGosling : {2}, autoTerminateIdleMinutes : {0, 1},
     enabled : BOOLEAN]

\* The arguments of updateCircuitBreakerConfig: only the supplied fields.
PartialConfigs ==
    { [enabled |-> FALSE],
      [enabled |-> TRUE],
      [maxOutputSizeBytes |-> 1, maxPromptsPerGosling |-> 1] }

\* The spread in the other order, { ...config, ...this.circuitBreaker }.
MergeCurrentOver(cb, config) ==
    [f \in ConfigFields |-> cb[f]]

\* { ...this.circuitBreaker, ...config }
MergeConfig(cb, config) ==
    [f \in ConfigFields |-> IF f \in DOMAIN config THEN config[f] ELSE cb[f]]

\* getCircuitBreakerConfig(): { ...this.circuitBreaker }
GetCircuitBreakerConfig(cb) ==
    [f \in DOMAIN cb |-> cb[f]]

\* ------------------------------------------------------------- helpers
\* The admission check with the active limit compared by > in place of >=.
AdmissionDeniedOffByOne(cb, gs) ==
    /\ cb.enabled
    /\ \/ ActiveCount(gs) > cb.maxActiveGoslings
       \/ Len(gs) >= cb.maxTotalGoslings

\* The admission check counting every gosling of the registry as active.
AdmissionCountsEnded(cb, gs) ==
    /\ cb.enabled
    /\ \/ Len(gs) >= cb.maxActiveGoslings
       \/ Len(gs) >= cb.maxTotalGoslings

\* runGoose's admission check: TRUE when one of the two throws is taken
AdmissionDenied(cb, gs) ==
    /\ cb.enabled
    /\ \/ ActiveCount(gs) >= cb.maxActiveGoslings
       \/ Len(gs) >= cb.maxTotalGoslings

\* The prompt ceiling compared by > in place of >=.
PromptCeilingOffByOne(cb, g) ==
    cb.enabled /\ g.promptCount > cb.maxPromptsPerGosling

\* sendPromptToGosling's prompt ceiling check
PromptCeilingReached(cb, g) ==
    cb.enabled /\ g.promptCount >= cb.maxPromptsPerGosling

\* the stdout handlers' output ceiling check
OutputCeilingExceeded(cb, g, text) ==
    cb.enabled /\ g.outputSize + Len(text) > cb.maxOutputSizeBytes

\* the "if (... enabled && ... maxRuntimeMinutes > 0) setTimeout(...)" of a (re)start
RuntimeTimerScheduled(cb) ==
    cb.enabled /\ cb.maxRuntimeMinutes > 0

\* the "if (... enabled && ... autoTerminateIdleMinutes > 0) setInterval(...)"
\* of the constructor and of updateCircuitBreakerConfig
IdleCheckScheduled(cb) ==
    cb.enabled /\ cb.autoTerminateIdleMinutes > 0

\* this.autoTerminateInterval = setInterval(...), under its condition: one
\* more timer is active, and the handle refers to it.
SetInterval(n, scheduled) == IF scheduled THEN n + 1 ELSE n

\* The earlier timer left running.
ClearIntervalOmitted(n) == n

\* if (this.autoTerminateInterval) clearInterval(this.autoTerminateInterval):
\* the timer the handle refers to stops, if it is still active.
ClearInterval(n) == IF n > 0 THEN n - 1 ELSE 0

\* The idle test compared by >= in place of >.
IdleAtThreshold(cb, g, t) ==
    t - g.lastOutputTime >= cb.autoTerminateIdleMinutes

\* terminateIdleGoslings: timeSinceLastOutput > idleThresholdMs at time t
IdleTooLong(cb, g, t) ==
    t - g.lastOutputTime > cb.autoTerminateIdleMinutes

\* ------------------------------------------------------------- child processes
ProcIds == 1..MaxProcs
\* the ChildProcess object of a child that has exited
Exited == 0
NoProcess == [owner |-> 0, stdinWritable |-> FALSE]
Live(ps) == {p \in ProcIds : ps[p].owner # 0}
CanSpawn(ps) == Live(ps) # ProcIds
FreeSlot(ps) == CHOOSE p \in ProcIds \ Live(ps) : \A q \in ProcIds \ Live(ps) : p <= q

\* spawn("goose", args, { env }): a live child with its stdin pipe open
NewProcess(id) ==
    [owner |-> id, stdinWritable |-> TRUE]

\* `gosling-${id.substring(0, 8)}`
SessionName(id) == <<"gosling-", id>>

\* the Gosling object literal of runGoose
NewGosling(id, prompt, proc) ==
    [id |-> id, prompt |-> prompt, process |-> proc, status |-> "running",
     output |-> <<>>, error |-> <<>>, endTime |-> "undefined",
     promptHistory |-> <<prompt>>, outputLineCount |-> 0,
     sessionName |-> SessionName(id), lastOutputTime |-> now,
     outputSize |-> 0, promptCount |-> 1]

\* terminateGosling leaving the mark to the exit handler.
TerminatedByExitOnly(gs, id) == gs

\* terminateGosling deleting the record it ends.
TerminatedAndDeleted(gs, id) ==
    [i \in 1..(Len(gs) - 1) |-> IF i < id THEN gs[i] ELSE gs[i + 1]]

\* terminateGosling ending every running gosling with the one it is called for.
TerminatedEveryRunning(gs, id) ==
    IF gs[id].status = "running"
    THEN [i \in 1..Len(gs) |->
            IF gs[i].status = "running"
            THEN [gs[i] EXCEPT !.status = "completed", !.endTime = "set"]
            ELSE gs[i]]
    ELSE gs

\* terminateGosling on a known id: the registry afterwards
TerminatedGoslings(gs, id) ==
    IF gs[id].status = "running"
    THEN [gs EXCEPT ![id].status = "completed", ![id].endTime = "set"]
    ELSE gs

\* The calls a step makes on the outside: kill and stdin.write on a child
\* (arg: the process), and the "Circuit breaker triggered" lines of
\* console.error (arg: the gosling).  A kill is a signal: the child stays
\* live until its exit event.
Call(name, arg) == [call |-> name, arg |-> arg]

\* terminateGosling killing whatever the status.
TerminateCallsAnyStatus(gs, id) == <<Call("kill", gs[id].process)>>

\* terminateGosling on a known id: its call on the child, process.kill()
TerminateCalls(gs, id) ==
    IF gs[id].status = "running" THEN <<Call("kill", gs[id].process)>>
    ELSE <<>>

\* What a call returned: val for the calls that return one value, terminated
\* and skipped for terminateAllGoslings.
Ret(op, id, val) ==
    [op |-> op, id |-> id, val |-> val, terminated |-> 0, skipped |-> 0]
RetCounts(op, terminated, skipped) ==
    [op |-> op, id |-> 0, val |-> "counts",
     terminated |-> terminated, skipped |-> skipped]
NoRet == Ret("none", 0, "none")

\* ------------------------------------------------------------- Init
Init ==
    /\ goslings = <<>>
    /\ procs = [p \in ProcIds |-> NoProcess]
    /\ circuitBreaker \in InitConfigs
    /\ runtimeTimers = <<>>
    /\ pending = <<>>
    /\ ret = NoRet
    /\ io = <<>>
    /\ now = 0
    /\ autoTerminateInterval = SetInterval(0, IdleCheckScheduled(circuitBreaker))

\* ------------------------------------------------------------- runGoose
\* The admission check throws: nothing after line 120 runs.
RunGooseDenied(prompt) ==
    /\ AdmissionDenied(circuitBreaker, goslings)
    /\ ret' = Ret("runGoose", 0, "breaker")
    /\ io' = <<>>
    /\ UNCHANGED <<goslings, procs, circuitBreaker, runtimeTimers, pending, now, autoTerminateInterval>>

\* The record put into the registry before the spawn that throws.
RunGooseSpawnThrowsAfterInsert(prompt) ==
    /\ ~AdmissionDenied(circuitBreaker, goslings)
    /\ Len(goslings) < MaxGoslings
    /\ goslings' = Append(goslings, NewGosling(Len(goslings) + 1, prompt, Exited))
    /\ runtimeTimers' = Append(runtimeTimers, 0)
    /\ ret' = Ret("runGoose", 0, "spawnError")
    /\ io' = <<>>
    /\ UNCHANGED <<procs, circuitBreaker, pending, now, autoTerminateInterval>>

\* spawn throws synchronously: the exception leaves runGoose at line 164.
RunGooseSpawnThrows(prompt) ==
    /\ ~AdmissionDenied(circuitBreaker, goslings)
    /\ ret' = Ret("runGoose", 0, "spawnError")
    /\ io' = <<>>
    /\ UNCHANGED <<goslings, procs, circuitBreaker, runtimeTimers, pending, now, autoTerminateInterval>>

RunGooseStarts(prompt) ==
    /\ ~AdmissionDenied(circuitBreaker, goslings)
    /\ Len(goslings) < MaxGoslings
    /\ CanSpawn(procs)
    /\ LET id == Len(goslings) + 1
           proc == FreeSlot(procs)
       IN /\ procs' = [procs EXCEPT ![proc] = NewProcess(id)]
          /\ goslings' = Append(goslings, NewGosling(id, prompt, proc))
          /\ runtimeTimers' = Append(runtimeTimers,
                                     IF RuntimeTimerScheduled(circuitBreaker) THEN 1 ELSE 0)
          /\ ret' = Ret("runGoose", id, "gosling")
          /\ io' = <<>>
    /\ UNCHANGED <<circuitBreaker, pending, now, autoTerminateInterval>>

RunGoose(prompt) ==
    \/ RunGooseDenied(prompt)
    \/ RunGooseSpawnThrows(prompt)
    \/ RunGooseStarts(prompt)

\* ------------------------------------------------------------- sendPromptToGosling
\* The write attempted without the stdin check.
StdinUnchecked(ps, g) == TRUE

\* gosling.process.stdin && gosling.process.stdin.writable
StdinWritable(ps, g) == g.process # Exited /\ ps[g.process].stdinWritable

\* The history restarted with the prompt that resumed the session.
PromptRecordedAfresh(g, prompt) ==
    [g EXCEPT !.promptHistory = <<prompt>>, !.promptCount = 1]

\* The push without the increment of promptCount.
PromptRecordedUncounted(g, prompt) ==
    [g EXCEPT !.promptHistory = Append(@, prompt)]

\* promptHistory.push({ prompt, timestamp }); promptCount++
PromptRecorded(g, prompt) ==
    [g EXCEPT !.promptHistory = Append(@, prompt), !.promptCount = @ + 1]

\* The resume branch's update of the gosling object (lines 309-314).
Resumed(g, proc) ==
    [g EXCEPT !.process = proc, !.status = "running", !.endTime = "undefined"]

\* Lines 383-410: the stdin check, the write and the history update; the part
\* of sendPromptToGosling after the resume branch.  The chunk written is a
\* string and the stream is writable, so write() itself does not throw.
WritePrompt(id, prompt) ==
    LET g == goslings[id] IN
    IF ~StdinWritable(procs, g)
    THEN /\ ret' = Ret("sendPrompt", id, "false")
         /\ io' = <<>>
         /\ UNCHANGED <<goslings, procs>>
    ELSE /\ g.promptCount < MaxPromptCount
         /\ io' = <<Call("stdin.write", g.process)>>
         /\ goslings' = [goslings EXCEPT ![id] = PromptRecorded(g, prompt)]
         /\ ret' = Ret("sendPrompt", id, "true")
         /\ UNCHANGED procs

\* if (!gosling) return false
SendPromptUnknown(id, prompt) ==
    /\ id \notin Ids
    /\ ret' = Ret("sendPrompt", id, "false")
    /\ io' = <<>>
    /\ UNCHANGED <<goslings, procs, circuitBreaker, runtimeTimers, pending, now, autoTerminateInterval>>

\* the prompt ceiling: return false before the resume branch
SendPromptCeiling(id, prompt) ==
    /\ id \in Ids
    /\ PromptCeilingReached(circuitBreaker, goslings[id])
    /\ ret' = Ret("sendPrompt", id, "false")
    /\ io' = <<Call("log:promptLimit", id)>>
    /\ UNCHANGED <<goslings, procs, circuitBreaker, runtimeTimers, pending, now, autoTerminateInterval>>

\* status running: no resume, the call runs to its return without an await
SendPromptRunning(id, prompt) ==
    /\ id \in Ids
    /\ ~PromptCeilingReached(circuitBreaker, goslings[id])
    /\ goslings[id].status = "running"
    /\ WritePrompt(id, prompt)
    /\ UNCHANGED <<circuitBreaker, runtimeTimers, pending, now, autoTerminateInterval>>

\* status not running, spawn throws: the catch returns false
SendPromptSpawnThrows(id, prompt) ==
    /\ id \in Ids
    /\ ~PromptCeilingReached(circuitBreaker, goslings[id])
    /\ goslings[id].status # "running"
    /\ ret' = Ret("sendPrompt", id, "false")
    /\ io' = <<>>
    /\ UNCHANGED <<goslings, procs, circuitBreaker, runtimeTimers, pending, now, autoTerminateInterval>>

\* status not running, spawn succeeds: the record is rebound to the new
\* process, the runtime timer is scheduled and the call suspends in the
\* settle delay.  The suspended call keeps its arguments; historyLen notes
\* how many prompts the gosling had when the call was made.
SendPromptResume(id, prompt) ==
    /\ id \in Ids
    /\ ~PromptCeilingReached(circuitBreaker, goslings[id])
    /\ goslings[id].status # "running"
    /\ CanSpawn(procs)
    /\ Len(pending) < MaxPending
    /\ RuntimeTimerScheduled(circuitBreaker) => runtimeTimers[id] < MaxProcs
    /\ procs' = [procs EXCEPT ![FreeSlot(procs)] = NewProcess(id)]
    /\ goslings' = [goslings EXCEPT ![id] = Resumed(@, FreeSlot(procs))]
    /\ runtimeTimers' = [runtimeTimers EXCEPT ![id] =
                           IF RuntimeTimerScheduled(circuitBreaker) THEN @ + 1 ELSE @]
    /\ pending' = Append(pending, [id |-> id, prompt |-> prompt,
                                   historyLen |-> Len(goslings[id].promptHistory)])
    /\ ret' = Ret("sendPrompt", id, "pending")
    /\ io' = <<>>
    /\ UNCHANGED <<circuitBreaker, now, autoTerminateInterval>>

\* The settle delays are equal, so the suspended calls continue in the order
\* they were suspended.
SendPromptSettled ==
    /\ pending # <<>>
    /\ WritePrompt(Head(pending).id, Head(pending).prompt)
    /\ pending' = Tail(pending)
    /\ UNCHANGED <<circuitBreaker, runtimeTimers, now, autoTerminateInterval>>

SendPromptToGosling(id, prompt) ==
    \/ SendPromptUnknown(id, prompt)
    \/ SendPromptCeiling(id, prompt)
    \/ SendPromptRunning(id, prompt)
    \/ SendPromptSpawnThrows(id, prompt)
    \/ SendPromptResume(id, prompt)

\* ------------------------------------------------------------- terminateGosling
TerminateGosling(id) ==
    /\ IF id \notin Ids
       THEN /\ ret' = Ret("terminate", id, "false")
            /\ io' = <<>>
            /\ UNCHANGED goslings
       ELSE /\ goslings' = TerminatedGoslings(goslings, id)
            /\ io' = TerminateCalls(goslings, id)
            /\ ret' = Ret("terminate", id, "true")
    /\ UNCHANGED <<procs, circuitBreaker, runtimeTimers, pending, now, autoTerminateInterval>>

\* ------------------------------------------------------------- process events
\* The append of the stdout handler below the ceiling check (lines 208-216).
Appended(g, text) ==
    [g EXCEPT !.output = @ \o text,
              !.lastOutputTime = now,
              !.outputSize = @ + Len(text),
              !.outputLineCount = @ + CountNewlines(text)]

\* The ceiling branch counting the whole chunk while appending its head.
TruncatedCountingAll(cb, g, text) ==
    LET remaining == cb.maxOutputSizeBytes - g.outputSize IN
    IF remaining > 0
    THEN [g EXCEPT !.output = @ \o Substring0(text, remaining),
                   !.outputSize = @ + Len(text)]
    ELSE g

\* The append of the stdout handler in the ceiling branch (lines 195-201).
Truncated(cb, g, text) ==
    LET remaining == cb.maxOutputSizeBytes - g.outputSize IN
    IF remaining > 0
    THEN [g EXCEPT !.output = @ \o Substring0(text, remaining),
                   !.outputSize = @ + remaining]
    ELSE g

\* stdout "data" of process p: the handler bound at its spawn
StdoutData(p, text) ==
    /\ p \in Live(procs)
    /\ LET id == procs[p].owner
           g == goslings[id]
       IN IF OutputCeilingExceeded(circuitBreaker, g, text)
          THEN LET gs == [goslings EXCEPT ![id] = Truncated(circuitBreaker, g, text)]
               IN /\ goslings' = TerminatedGoslings(gs, id)
                  /\ io' = <<Call("log:outputLimit", id)>> \o TerminateCalls(gs, id)
          ELSE /\ Len(g.output) + Len(text) <= MaxOutputLen
               /\ goslings' = [goslings EXCEPT ![id] = Appended(g, text)]
               /\ io' = <<>>
    /\ ret' = NoRet
    /\ UNCHANGED <<procs, circuitBreaker, runtimeTimers, pending, now, autoTerminateInterval>>

\* stderr "data" of process p
StderrData(p) ==
    /\ p \in Live(procs)
    /\ Len(goslings[procs[p].owner].error) < MaxErrorLen
    /\ goslings' = [goslings EXCEPT ![procs[p].owner].error = Append(@, "stderr")]
    /\ ret' = NoRet
    /\ io' = <<>>
    /\ UNCHANGED <<procs, circuitBreaker, runtimeTimers, pending, now, autoTerminateInterval>>

\* The exit handler taking every exit for a clean one.
ExitHandledAsCompleted(g, code) ==
    [g EXCEPT !.endTime = "set", !.status = "completed"]

\* The exit handler (lines 225-229, 351-355).
ExitHandled(g, code) ==
    [g EXCEPT !.endTime = "set",
              !.status = IF code = 0 THEN "completed" ELSE "error"]

\* "exit" of process p: the child is gone and its stdin pipe is destroyed
ExitEvent(p, code) ==
    /\ p \in Live(procs)
    /\ procs' = [procs EXCEPT ![p] = NoProcess]
    /\ goslings' = [goslings EXCEPT ![procs[p].owner] =
                       ExitHandled([@ EXCEPT !.process = IF @ = p THEN Exited ELSE @], code)]
    /\ ret' = NoRet
    /\ io' = <<>>
    /\ UNCHANGED <<circuitBreaker, runtimeTimers, pending, now, autoTerminateInterval>>

\* The error handler (lines 232-236, 357-361).
Errored(g) ==
    [g EXCEPT !.error = Append(@, "message"), !.status = "error"]

\* "error" of process p
ErrorEvent(p) ==
    /\ p \in Live(procs)
    /\ Len(goslings[procs[p].owner].error) < MaxErrorLen
    /\ goslings' = [goslings EXCEPT ![procs[p].owner] = Errored(@)]
    /\ ret' = NoRet
    /\ io' = <<>>
    /\ UNCHANGED <<procs, circuitBreaker, runtimeTimers, pending, now, autoTerminateInterval>>

\* The child closes its end of the stdin pipe: stdin.writable turns false.
\* Only the stdin of gosling.process is ever read.
StdinClosed(p) ==
    /\ p \in Live(procs)
    /\ goslings[procs[p].owner].process = p
    /\ procs[p].stdinWritable
    /\ procs' = [procs EXCEPT ![p].stdinWritable = FALSE]
    /\ ret' = NoRet
    /\ io' = <<>>
    /\ UNCHANGED <<goslings, circuitBreaker, runtimeTimers, pending, now, autoTerminateInterval>>

\* ------------------------------------------------------------- runtime timer
\* The callback expiring without its terminateGosling call.
RuntimeTimerLapses(id) ==
    /\ id \in Ids
    /\ runtimeTimers[id] > 0
    /\ runtimeTimers' = [runtimeTimers EXCEPT ![id] = @ - 1]
    /\ ret' = NoRet
    /\ io' = <<>>
    /\ UNCHANGED <<goslings, procs, circuitBreaker, pending, now,
                   autoTerminateInterval>>

\* The setTimeout callback of a (re)start (lines 241-247, 366-372).  The
\* timers of one gosling are scheduled with the delay of the configuration
\* at their (re)start; runtimeTimers counts those still pending, and with an
\* unchanged delay they fire in the order they were scheduled.
RuntimeTimerFires(id) ==
    /\ id \in Ids
    /\ runtimeTimers[id] > 0
    /\ runtimeTimers' = [runtimeTimers EXCEPT ![id] = @ - 1]
    /\ goslings' = TerminatedGoslings(goslings, id)
    /\ io' = IF goslings[id].status = "running"
             THEN <<Call("log:runtimeLimit", id)>> \o TerminateCalls(goslings, id)
             ELSE <<>>
    /\ ret' = NoRet
    /\ UNCHANGED <<procs, circuitBreaker, pending, now, autoTerminateInterval>>

\* ------------------------------------------------------------- updateCircuitBreakerConfig
\* updateCircuitBreakerConfig checking the running goslings against the new
\* output ceiling at once.
UpdateCircuitBreakerConfigRechecking(config) ==
    /\ circuitBreaker' = MergeConfig(circuitBreaker, config)
    /\ autoTerminateInterval' = SetInterval(ClearInterval(autoTerminateInterval),
                                             IdleCheckScheduled(circuitBreaker'))
    /\ goslings' = [i \in 1..Len(goslings) |->
                      IF /\ goslings[i].status = "running"
                         /\ goslings[i].outputSize > circuitBreaker'.maxOutputSizeBytes
                      THEN TerminatedGoslings(goslings, i)[i]
                      ELSE goslings[i]]
    /\ ret' = Ret("updateConfig", 0, "void")
    /\ io' = <<>>
    /\ UNCHANGED <<procs, runtimeTimers, pending, now>>

UpdateCircuitBreakerConfig(config) ==
    /\ circuitBreaker' = MergeConfig(circuitBreaker, config)
    /\ autoTerminateInterval' = SetInterval(ClearInterval(autoTerminateInterval),
                                             IdleCheckScheduled(circuitBreaker'))
    /\ ret' = Ret("updateConfig", 0, "void")
    /\ io' = <<>>
    /\ UNCHANGED <<goslings, procs, runtimeTimers, pending, now>>

\* ------------------------------------------------------------- terminateAllGoslings
\* The loops "for (const gosling of this.getAllGoslings())" that call
\* terminateGosling on the goslings of sel, from index i on: the registry
\* afterwards, and the calls made, with the reaper's log line before each.
RECURSIVE TerminatedFrom(_, _, _)
TerminatedFrom(gs, sel, i) ==
    IF i > Len(gs) THEN gs
    ELSE TerminatedFrom(IF i \in sel THEN TerminatedGoslings(gs, i) ELSE gs,
                        sel, i + 1)

RECURSIVE TerminateCallsFrom(_, _, _, _)
TerminateCallsFrom(gs, sel, log, i) ==
    IF i > Len(gs) THEN <<>>
    ELSE (IF i \in sel THEN log[i] \o TerminateCalls(gs, i) ELSE <<>>)
             \o TerminateCallsFrom(gs, sel, log, i + 1)

\* the goslings the loops select: gosling.status === "running"
Running(gs) == {i \in 1..Len(gs) : gs[i].status = "running"}

NoLog(gs) == [i \in 1..Len(gs) |-> <<>>]

\* The counts with every gosling counted as skipped.
TerminateAllCountsSkipAll(gs) ==
    [terminated |-> Cardinality(Running(gs)), skipped |-> Len(gs)]

\* The counts and the effect of terminateAllGoslings (lines 662-674).
TerminateAllCounts(gs) ==
    [terminated |-> Cardinality(Running(gs)),
     skipped |-> Len(gs) - Cardinality(Running(gs))]

TerminateAllGoslings ==
    /\ goslings' = TerminatedFrom(goslings, Running(goslings), 1)
    /\ io' = TerminateCallsFrom(goslings, Running(goslings), NoLog(goslings), 1)
    /\ ret' = RetCounts("terminateAll", TerminateAllCounts(goslings).terminated,
                        TerminateAllCounts(goslings).skipped)
    /\ UNCHANGED <<procs, circuitBreaker, runtimeTimers, pending, now,
                   autoTerminateInterval>>

\* ------------------------------------------------------------- terminateIdleGoslings
\* the running goslings whose last output is older than the threshold
IdleGoslings(cb, gs, t) ==
    {i \in Running(gs) : IdleTooLong(cb, gs[i], t)}

IdleLog(gs) == [i \in 1..Len(gs) |-> <<Call("log:idle", i)>>]

\* A tick of the setInterval of the constructor or of
\* updateCircuitBreakerConfig: terminateIdleGoslings().
TerminateIdleGoslings ==
    /\ autoTerminateInterval > 0
    /\ IF ~circuitBreaker.enabled \/ circuitBreaker.autoTerminateIdleMinutes <= 0
       THEN /\ io' = <<>>
            /\ UNCHANGED goslings
       ELSE LET sel == IdleGoslings(circuitBreaker, goslings, now)
            IN /\ goslings' = TerminatedFrom(goslings, sel, 1)
               /\ io' = TerminateCallsFrom(goslings, sel, IdleLog(goslings), 1)
    /\ ret' = NoRet
    /\ UNCHANGED <<procs, circuitBreaker, runtimeTimers, pending, now,
                   autoTerminateInterval>>

\* ------------------------------------------------------------- shutdown
\* shutdown without its clearInterval.
ShutdownKeepingInterval ==
    /\ goslings' = TerminatedFrom(goslings, Running(goslings), 1)
    /\ io' = TerminateCallsFrom(goslings, Running(goslings), NoLog(goslings), 1)
    /\ ret' = Ret("shutdown", 0, "void")
    /\ UNCHANGED <<procs, circuitBreaker, runtimeTimers, pending, now,
                   autoTerminateInterval>>

\* clearInterval, then terminateAllGoslings()
Shutdown ==
    /\ autoTerminateInterval' = ClearInterval(autoTerminateInterval)
    /\ goslings' = TerminatedFrom(goslings, Running(goslings), 1)
    /\ io' = TerminateCallsFrom(goslings, Running(goslings), NoLog(goslings), 1)
    /\ ret' = Ret("shutdown", 0, "void")
    /\ UNCHANGED <<procs, circuitBreaker, runtimeTimers, pending, now>>

\* ------------------------------------------------------------- time
\* A minute passes.
Tick ==
    /\ now < MaxTime
    /\ now' = now + 1
    /\ ret' = NoRet
    /\ io' = <<>>
    /\ UNCHANGED <<goslings, procs, circuitBreaker, runtimeTimers, pending,
                   autoTerminateInterval>>

\* ------------------------------------------------------------- getGoslingOutput
\* limit: number = 100, and the value a limit <= 0 is replaced by
DefaultLimit == 100

Min(a, b) == IF a <= b THEN a ELSE b
Max(a, b) == IF a >= b THEN a ELSE b

\* output.split('\n'): the pieces between the newlines, at least one piece
RECURSIVE SplitLines(_)
SplitLines(s) ==
    IF s = <<>> THEN << <<>> >>
    ELSE LET rest == SplitLines(Tail(s)) IN
         IF Head(s) = NL THEN << <<>> >> \o rest
         ELSE << <<Head(s)>> \o Head(rest) >> \o Tail(rest)

\* requestedLines.join('\n')
RECURSIVE JoinLines(_)
JoinLines(ls) ==
    IF ls = <<>> THEN <<>>
    ELSE IF Len(ls) = 1 THEN ls[1]
    ELSE ls[1] \o <<NL>> \o JoinLines(Tail(ls))

\* The slice that leaves out the line at start.
SliceAfterStart(ls, start, end) == SubSeq(ls, start + 2, end)

\* lines.slice(start, end) for 0 <= start and end <= lines.length
Slice(ls, start, end) == SubSeq(ls, start + 1, end)

\* An offset past the end clamped to the number of lines.
ClampedOffsetToLength(offset, n) ==
    IF offset < 0 THEN 0
    ELSE IF offset >= n THEN n
    ELSE offset

\* Lines 447-448: if (offset < 0) offset = 0;
\* if (offset >= lines.length) offset = Math.max(0, lines.length - 1)
ClampedOffset(offset, n) ==
    IF offset < 0 THEN 0
    ELSE IF offset >= n THEN Max(0, n - 1)
    ELSE offset

\* Line 451: if (limit <= 0) limit = 100
ClampedLimit(limit) == IF limit <= 0 THEN DefaultLimit ELSE limit

\* The result with endLine as the index of the last line returned.
OutputPageEndInclusive(text, totalLines, startLine, endLine, hasMore) ==
    [text |-> text, totalLines |-> totalLines, startLine |-> startLine,
     endLine |-> Max(startLine, endLine - 1), hasMore |-> hasMore]

\* What getGoslingOutput returns for a gosling: text and metadata.
OutputPage(text, totalLines, startLine, endLine, hasMore) ==
    [text |-> text, totalLines |-> totalLines, startLine |-> startLine,
     endLine |-> endLine, hasMore |-> hasMore]
NoPage == OutputPage(<<>>, 0, 0, 0, FALSE)

\* getGoslingOutput for a gosling of the registry (lines 430-467)
GetGoslingOutput(g, offset, limit, fullOutput) ==
    IF fullOutput
    THEN OutputPage(g.output, g.outputLineCount, 0, g.outputLineCount, FALSE)
    ELSE LET lines == SplitLines(g.output)
             start == ClampedOffset(offset, Len(lines))
             endIndex == Min(start + ClampedLimit(limit), Len(lines))
         IN OutputPage(JoinLines(Slice(lines, start, endIndex)),
                       Len(lines), start, endIndex, endIndex < Len(lines))

\* The client's loop over the pages, as the get_gosling_output reply tells
\* it (handlers.ts, "Next page: offset=${metadata.endLine} limit=${limit}"):
\* the page at offset, then the page at its endLine while hasMore is true,
\* for at most n requests.
RECURSIVE SequentialPages(_, _, _, _)
SequentialPages(g, offset, limit, n) ==
    LET page == GetGoslingOutput(g, offset, limit, FALSE) IN
    IF page.hasMore /\ n > 1
    THEN <<page>> \o SequentialPages(g, page.endLine, limit, n - 1)
    ELSE <<page>>

\* A call of getGoslingOutput: undefined for an unknown id.  The record of
\* the call keeps its arguments beside the result.
GetGoslingOutputCall(id, offset, limit, fullOutput) ==
    /\ ret' = [op |-> "getGoslingOutput", id |-> id,
               val |-> IF id \in Ids THEN "page" ELSE "undefined",
               offset |-> offset, limit |-> limit, fullOutput |-> fullOutput,
               page |-> IF id \in Ids
                        THEN GetGoslingOutput(goslings[id], offset, limit, fullOutput)
                        ELSE NoPage]
    /\ io' = <<>>
    /\ UNCHANGED <<goslings, procs, circuitBreaker, runtimeTimers, pending, now,
                   autoTerminateInterval>>

\* ------------------------------------------------------------- getGoslingActivityStatus
\* Output counted as recent up to and including the threshold.
RecentOutputInclusive(timeSinceLastOutput, idleThresholdMs) ==
    timeSinceLastOutput <= idleThresholdMs

\* Line 496: timeSinceLastOutput < idleThresholdMs
RecentOutput(timeSinceLastOutput, idleThresholdMs) ==
    timeSinceLastOutput < idleThresholdMs

\* What getGoslingActivityStatus returns for a gosling: idleTimeMs is
\* present only where hasIdleTimeMs says so.
Activity(status, hasIdleTimeMs, idleTimeMs) ==
    [status |-> status, hasIdleTimeMs |-> hasIdleTimeMs, idleTimeMs |-> idleTimeMs]
NoActivity == Activity("none", FALSE, 0)

\* getGoslingActivityStatus for a gosling of the registry at time t (lines
\* 486-504); t and the threshold are in units of the clock.
GetGoslingActivityStatus(g, t, idleThresholdMs) ==
    IF g.status # "running" THEN Activity("IDLE", FALSE, 0)
    ELSE IF RecentOutput(t - g.lastOutputTime, idleThresholdMs)
    THEN Activity("WORKING", FALSE, 0)
    ELSE Activity("IDLE", TRUE, t - g.lastOutputTime)

\* A call of getGoslingActivityStatus: undefined for an unknown id.
GetGoslingActivityStatusCall(id, idleThresholdMs) ==
    /\ ret' = [op |-> "getGoslingActivityStatus", id |-> id,
               val |-> IF id \in Ids THEN "activity" ELSE "undefined",
               idleThresholdMs |-> idleThresholdMs,
               activity |-> IF id \in Ids
                            THEN GetGoslingActivityStatus(goslings[id], now,
                                                          idleThresholdMs)
                            ELSE NoActivity]
    /\ io' = <<>>
    /\ UNCHANGED <<goslings, procs, circuitBreaker, runtimeTimers, pending, now,
                   autoTerminateInterval>>

\* ------------------------------------------------------------- specifications
\* the ids a caller passes: those of the registry and one unknown id
CallIds == 1..(Len(goslings) + 1)

Create == \E prompt \in Prompts : RunGoose(prompt)
SendPrompt == \E id \in CallIds, prompt \in FollowUps : SendPromptToGosling(id, prompt)
Terminate == \E id \in CallIds : TerminateGosling(id)
Stdout == \E p \in ProcIds, text \in Chunks : StdoutData(p, text)
Stderr == \E p \in ProcIds : StderrData(p)
ProcessExit == \E p \in ProcIds, code \in ExitCodes : ExitEvent(p, code)
ProcessError == \E p \in ProcIds : ErrorEvent(p)
StdinClose == \E p \in ProcIds : StdinClosed(p)
RuntimeTimer == \E id \in CallIds : RuntimeTimerFires(id)
UpdateConfig == \E config \in PartialConfigs : UpdateCircuitBreakerConfig(config)

\* Every call and every event, in any order.
Next ==
    \/ Create
    \/ SendPrompt
    \/ SendPromptSettled
    \/ Terminate
    \/ Stdout
    \/ Stderr
    \/ ProcessExit
    \/ ProcessError
    \/ StdinClose
    \/ RuntimeTimer
    \/ UpdateConfig
    \/ TerminateAllGoslings
    \/ TerminateIdleGoslings
    \/ Shutdown
    \/ Tick

Spec == Init /\ [][Next]_vars

\* One session under its calls and the events of its processes, with the
\* configuration as constructed: the client creates a session and then works
\* on it alone.
CreateFirst == goslings = <<>> /\ Create

NextSession ==
    \/ CreateFirst
    \/ SendPrompt
    \/ SendPromptSettled
    \/ Terminate
    \/ Stdout
    \/ ProcessExit
    \/ ProcessError
    \/ StdinClose
    \/ RuntimeTimer

InitSession ==
    /\ Init
    /\ circuitBreaker.autoTerminateIdleMinutes = 1
    /\ circuitBreaker.maxActiveGoslings = 2
    /\ circuitBreaker.maxRuntimeMinutes = 1

SpecSession == InitSession /\ [][NextSession]_vars

\* The same, with every scheduled runtime timer firing in the end: a
\* setTimeout callback runs once its delay has passed.
SpecSessionFair == SpecSession /\ WF_vars(RuntimeTimer)

\* One session whose limits are reconfigured while it lives, with no runtime
\* limit (maxRuntimeMinutes 0 schedules no timer).
NextConfig ==
    \/ CreateFirst
    \/ SendPrompt
    \/ SendPromptSettled
    \/ Terminate
    \/ Stdout
    \/ ProcessExit
    \/ ProcessError
    \/ UpdateConfig

InitConfig ==
    /\ Init
    /\ circuitBreaker.autoTerminateIdleMinutes = 1
    /\ circuitBreaker.maxActiveGoslings = 2
    /\ circuitBreaker.maxRuntimeMinutes = 0

SpecConfig == InitConfig /\ [][NextConfig]_vars

\* Several sessions under the calls and the events that start and end them,
\* with the configuration as constructed.
NextRegistry ==
    \/ Create
    \/ SendPrompt
    \/ SendPromptSettled
    \/ Terminate
    \/ ProcessExit

InitRegistry ==
    /\ Init
    /\ circuitBreaker.autoTerminateIdleMinutes = 1
    /\ circuitBreaker.enabled
    /\ circuitBreaker.maxRuntimeMinutes = 0

SpecRegistry == InitRegistry /\ [][NextRegistry]_vars

\* Several sessions under the calls that end them, the idle check and the
\* clock, with the governor enabled as constructed and no runtime limit; no
\* session is resumed.
NextGovernor ==
    \/ Create
    \/ Terminate
    \/ TerminateAllGoslings
    \/ Shutdown
    \/ TerminateIdleGoslings
    \/ Tick
    \/ Stdout
    \/ ProcessExit

InitGovernor ==
    /\ Init
    /\ circuitBreaker.enabled
    /\ circuitBreaker.maxActiveGoslings = 2
    /\ circuitBreaker.maxRuntimeMinutes = 0

SpecGovernor == InitGovernor /\ [][NextGovernor]_vars

\* One session whose governor is switched off and on and reconfigured while
\* its runtime timers, the idle check and the clock run, up to shutdown.
NextLimits ==
    \/ CreateFirst
    \/ SendPrompt
    \/ SendPromptSettled
    \/ Stdout
    \/ ProcessExit
    \/ RuntimeTimer
    \/ UpdateConfig
    \/ TerminateIdleGoslings
    \/ Tick
    \/ Shutdown

InitLimits ==
    /\ Init
    /\ circuitBreaker.autoTerminateIdleMinutes = 1
    /\ circuitBreaker.maxActiveGoslings = 2
    /\ circuitBreaker.maxRuntimeMinutes = 1

SpecLimits == InitLimits /\ [][NextLimits]_vars

\* The output query on a session that has ended with some output: every
\* output of up to MaxPageChars characters and newlines, every offset and
\* limit around the number of lines, with and without fullOutput.
Outputs == UNION {[1..n -> Chars] : n \in 0..MaxPageChars}
Offsets == (0 - 1)..(MaxPageChars + 2)
PageLimits == (0 - 1)..(MaxPageChars + 2)

GetOutput ==
    \E id \in CallIds, offset \in Offsets, limit \in PageLimits, fullOutput \in BOOLEAN :
        GetGoslingOutputCall(id, offset, limit, fullOutput)

NextOutput == GetOutput

\* The session was created, its process wrote the output and exited with
\* code 0; the output ceiling is not below the output.
InitOutput ==
    /\ now = 0
    /\ \E output \in Outputs :
         goslings = << [NewGosling(1, "p", Exited) EXCEPT
                          !.status = "completed", !.endTime = "set",
                          !.output = output, !.outputSize = Len(output),
                          !.outputLineCount = CountNewlines(output)] >>
    /\ procs = [p \in ProcIds |-> NoProcess]
    /\ circuitBreaker \in InitConfigs
    /\ circuitBreaker.enabled = FALSE
    /\ circuitBreaker.maxActiveGoslings = 2
    /\ circuitBreaker.maxRuntimeMinutes = 0
    /\ circuitBreaker.autoTerminateIdleMinutes = 1
    /\ runtimeTimers = <<0>>
    /\ pending = <<>>
    /\ ret = NoRet
    /\ io = <<>>
    /\ autoTerminateInterval = SetInterval(0, IdleCheckScheduled(circuitBreaker))

SpecOutput == InitOutput /\ [][NextOutput]_vars

\* The activity query on one session while it prints, is terminated or
\* exits and time passes.
Thresholds == 0..(MaxTime + 1)

GetActivity ==
    \E id \in CallIds, idleThresholdMs \in Thresholds :
        GetGoslingActivityStatusCall(id, idleThresholdMs)

NextActivity ==
    \/ CreateFirst
    \/ Stdout
    \/ Terminate
    \/ ProcessExit
    \/ Tick
    \/ GetActivity

InitActivity ==
    /\ Init
    /\ circuitBreaker.enabled
    /\ circuitBreaker.autoTerminateIdleMinutes = 1
    /\ circuitBreaker.maxActiveGoslings = 2
    /\ circuitBreaker.maxRuntimeMinutes = 0

SpecActivity == InitActivity /\ [][NextActivity]_vars

\* Several sessions under the events of their processes: output on stdout
\* and stderr, exits, error events, the runtime timers and terminate calls,
\* with the governor enabled and a runtime limit; no session is resumed.
NextEvents ==
    \/ Create
    \/ Terminate
    \/ Stdout
    \/ Stderr
    \/ ProcessExit
    \/ ProcessError
    \/ RuntimeTimer

InitEvents ==
    /\ Init
    /\ circuitBreaker.enabled
    /\ circuitBreaker.autoTerminateIdleMinutes = 1
    /\ circuitBreaker.maxActiveGoslings = 2
    /\ circuitBreaker.maxRuntimeMinutes = 1

SpecEvents == InitEvents /\ [][NextEvents]_vars

\* The idle check's interval under construction with or without an idle
\* limit, reconfiguration of every kind (the idle limit set and removed, the
\* governor switched on and off, ceilings changed) and shutdown, beside one
\* session that prints while time passes.
IdleConfigs ==
    PartialConfigs \cup {[autoTerminateIdleMinutes |-> 0],
                         [autoTerminateIdleMinutes |-> 1]}

UpdateIdleConfig == \E config \in IdleConfigs : UpdateCircuitBreakerConfig(config)

NextReaper ==
    \/ CreateFirst
    \/ Stdout
    \/ UpdateIdleConfig
    \/ TerminateIdleGoslings
    \/ Shutdown
    \/ Tick

InitReaper ==
    /\ Init
    /\ circuitBreaker.maxActiveGoslings = 2
    /\ circuitBreaker.maxRuntimeMinutes = 0

SpecReaper == InitReaper /\ [][NextReaper]_vars

\* One session whose processes print lines: chunks with newlines in them,
\* against an output ceiling that is reconfigured, with terminate, exit and
\* resume.
LineChunks == {<<"a">>, <<NL>>, <<NL, "a">>}

StdoutLines == \E p \in ProcIds, text \in LineChunks : StdoutData(p, text)

NextLines ==
    \/ CreateFirst
    \/ StdoutLines
    \/ Terminate
    \/ ProcessExit
    \/ SendPrompt
    \/ SendPromptSettled
    \/ UpdateConfig

InitLines ==
    /\ Init
    /\ circuitBreaker.autoTerminateIdleMinutes = 1
    /\ circuitBreaker.maxActiveGoslings = 2
    /\ circuitBreaker.maxRuntimeMinutes = 0

SpecLines == InitLines /\ [][NextLines]_vars

\* ============================================================= claims

\* ------------------------------------------------------------- C1
\* C1: with the governor enabled, a runGoose call made while the number of
\* running goslings is >= maxActiveGoslings or the registry size is >=
\* maxTotalGoslings throws the circuit breaker error, spawns no process and
\* adds no entry to the registry.
C1_AdmissionRejects ==
    [][\A prompt \in Prompts :
         ( /\ RunGoose(prompt)
           /\ circuitBreaker.enabled
           /\ \/ ActiveCount(goslings) >= circuitBreaker.maxActiveGoslings
              \/ Len(goslings) >= circuitBreaker.maxTotalGoslings )
         => /\ ret' = Ret("runGoose", 0, "breaker")
            /\ procs' = procs
            /\ goslings' = goslings]_vars

\* A create was rejected at the active limit, with room left under the total
\* limit.
C1_Witness ==
    /\ ret = Ret("runGoose", 0, "breaker")
    /\ circuitBreaker.enabled
    /\ ActiveCount(goslings) >= circuitBreaker.maxActiveGoslings
    /\ Len(goslings) < circuitBreaker.maxTotalGoslings

\* ------------------------------------------------------------- C2
\* C2: with the governor enabled and the configuration unchanged, the number
\* of goslings with status running is at most maxActiveGoslings in every
\* reachable state.
C2_ActiveWithinLimit ==
    circuitBreaker.enabled
        => ActiveCount(goslings) <= circuitBreaker.maxActiveGoslings

\* ------------------------------------------------------------- C3
\* C3: with the governor enabled, a stdout event whose text would make
\* outputSize exceed maxOutputSizeBytes leaves outputSize exactly equal to
\* maxOutputSizeBytes and leaves the gosling with status completed.
C3_OutputCeilingExact ==
    [][\A p \in ProcIds, text \in Chunks :
         ( /\ StdoutData(p, text)
           /\ circuitBreaker.enabled
           /\ goslings[procs[p].owner].outputSize + Len(text)
                  > circuitBreaker.maxOutputSizeBytes )
         => /\ goslings'[procs[p].owner].outputSize = circuitBreaker.maxOutputSizeBytes
            /\ goslings'[procs[p].owner].status = "completed"]_vars

\* ------------------------------------------------------------- C4
\* C4: with the governor enabled, sendPromptToGosling on a gosling whose
\* promptCount >= maxPromptsPerGosling returns false before any resume: no
\* process is spawned, nothing is written to stdin, and the gosling (status,
\* promptHistory, promptCount) is unchanged, running or not.
C4_PromptCeilingRejects ==
    [][\A id \in Ids, prompt \in FollowUps :
         ( /\ SendPromptToGosling(id, prompt)
           /\ circuitBreaker.enabled
           /\ goslings[id].promptCount >= circuitBreaker.maxPromptsPerGosling )
         => /\ ret' = Ret("sendPrompt", id, "false")
            /\ goslings' = goslings
            /\ procs' = procs
            /\ pending' = pending
            /\ runtimeTimers' = runtimeTimers
            /\ \A i \in 1..Len(io') : io'[i].call # "stdin.write"]_vars

\* The ceiling has just refused a prompt to a gosling that had ended.
C4_Witness ==
    /\ ret = Ret("sendPrompt", 1, "false")
    /\ io = <<Call("log:promptLimit", 1)>>
    /\ goslings[1].status # "running"
    /\ goslings[1].promptCount >= circuitBreaker.maxPromptsPerGosling

\* ------------------------------------------------------------- C5
\* C5: with the governor enabled and the configuration unchanged, promptCount
\* of a gosling never exceeds maxPromptsPerGosling, also when two
\* sendPromptToGosling calls on it overlap in the settle delay.
C5_PromptCountWithinLimit ==
    circuitBreaker.enabled
        => \A id \in Ids :
              goslings[id].promptCount <= circuitBreaker.maxPromptsPerGosling

\* ------------------------------------------------------------- C6
\* C6: terminateGosling(id) on a running gosling returns true and, in the
\* call itself, while the child is still live, sends the kill signal and sets
\* status to completed and endTime.
C6_TerminateMarksCompleted ==
    [][\A id \in Ids :
         (TerminateGosling(id) /\ goslings[id].status = "running")
         => /\ ret' = Ret("terminate", id, "true")
            /\ io' = <<Call("kill", goslings[id].process)>>
            /\ goslings[id].process \in Live(procs')
            /\ goslings'[id].status = "completed"
            /\ goslings'[id].endTime = "set"]_vars

\* terminateGosling has just returned true for a gosling it completed while
\* its child is still live.
C6_Witness ==
    /\ ret = Ret("terminate", 1, "true")
    /\ io = <<Call("kill", goslings[1].process)>>
    /\ goslings[1].process \in Live(procs)
    /\ goslings[1].status = "completed"
    /\ goslings[1].endTime = "set"

\* ------------------------------------------------------------- C7
\* C7: after terminateGosling has set a running gosling to completed, the
\* exit event of the killed child, with any exit code, leaves the status
\* completed.  (Stated for the exit event that follows the kill directly:
\* ret and io still name the terminate call and its kill.)
C7_ExitKeepsCompleted ==
    [][\A p \in ProcIds, code \in ExitCodes :
         ( /\ ExitEvent(p, code)
           /\ ret = Ret("terminate", procs[p].owner, "true")
           /\ io = <<Call("kill", p)>>
           /\ goslings[procs[p].owner].status = "completed" )
         => goslings'[procs[p].owner].status = "completed"]_vars

\* ------------------------------------------------------------- C8
\* C8: sendPromptToGosling on a gosling that is not running, when the resume
\* spawn succeeded and stdin is writable after the settle delay, returns true
\* and leaves the gosling with status running and endTime unset.
C8_ResumeLeavesRunning ==
    [][( /\ SendPromptSettled
         /\ goslings[Head(pending).id].process # Exited
         /\ procs[goslings[Head(pending).id].process].stdinWritable )
       => /\ ret' = Ret("sendPrompt", Head(pending).id, "true")
          /\ goslings'[Head(pending).id].status = "running"
          /\ goslings'[Head(pending).id].endTime = "undefined"]_vars

\* ------------------------------------------------------------- C9
\* a is an initial segment of b
IsPrefix(a, b) == Len(a) <= Len(b) /\ SubSeq(b, 1, Len(a)) = a

\* C9: a gosling resumed by a successful sendPromptToGosling keeps its id,
\* sessionName and prompt, keeps every prior promptHistory entry in place,
\* has the new prompt appended as the last entry, and has promptCount
\* increased by exactly 1.
C9_ResumeKeepsIdentity ==
    /\ [][\A id \in Ids :
            /\ goslings'[id].id = goslings[id].id
            /\ goslings'[id].sessionName = goslings[id].sessionName
            /\ goslings'[id].prompt = goslings[id].prompt
            /\ IsPrefix(goslings[id].promptHistory, goslings'[id].promptHistory)]_vars
    /\ [][\A id \in Ids, prompt \in FollowUps :
            ( /\ SendPromptToGosling(id, prompt)
              /\ goslings[id].status # "running" )
            => /\ goslings'[id].promptHistory = goslings[id].promptHistory
               /\ goslings'[id].promptCount = goslings[id].promptCount]_vars
    /\ [][(SendPromptSettled /\ ret'.val = "true")
          => LET id == Head(pending).id IN
             /\ goslings'[id].promptHistory =
                    Append(goslings[id].promptHistory, Head(pending).prompt)
             /\ goslings'[id].promptCount = goslings[id].promptCount + 1]_vars

\* A resumed call has returned true on the gosling created with "p": the
\* follow-up is the last of its two history entries.
C9_Witness ==
    /\ ret = Ret("sendPrompt", 1, "true")
    /\ pending = <<>>
    /\ goslings[1].process = 2
    /\ goslings[1].id = 1
    /\ goslings[1].sessionName = SessionName(1)
    /\ goslings[1].prompt = "p"
    /\ goslings[1].promptHistory = <<"p", "q">>
    /\ goslings[1].promptCount = 2

\* ------------------------------------------------------------- C10
\* C10: sendPromptToGosling returns false when the resume spawn throws or
\* stdin is not writable at the write, and no sendPromptToGosling call,
\* successful or not, changes the size of the registry.
C10_ResumeFailureReturnsFalse ==
    /\ [][\A id \in Ids, prompt \in FollowUps :
            SendPromptSpawnThrows(id, prompt)
            => ret' = Ret("sendPrompt", id, "false") /\ procs' = procs]_vars
    /\ [][\A id \in Ids, prompt \in FollowUps :
            ( /\ SendPromptToGosling(id, prompt)
              /\ goslings[id].status = "running"
              /\ \/ goslings[id].process = Exited
                 \/ ~procs[goslings[id].process].stdinWritable )
            => ret' = Ret("sendPrompt", id, "false")]_vars
    /\ [][( /\ SendPromptSettled
            /\ \/ goslings[Head(pending).id].process = Exited
               \/ ~procs[goslings[Head(pending).id].process].stdinWritable )
          => ret' = Ret("sendPrompt", Head(pending).id, "false")]_vars
    /\ [][((\E id \in CallIds, prompt \in FollowUps : SendPromptToGosling(id, prompt))
               \/ SendPromptSettled)
          => Len(goslings') = Len(goslings)]_vars

\* A call on the only gosling has returned false because the stdin of its
\* live child was closed: nothing was written, one gosling as before.
C10_Witness ==
    /\ Len(goslings) = 1
    /\ ret = Ret("sendPrompt", 1, "false")
    /\ io = <<>>
    /\ goslings[1].status = "running"
    /\ goslings[1].process \in Live(procs)
    /\ ~procs[goslings[1].process].stdinWritable

\* ------------------------------------------------------------- C11
\* C11: with the governor enabled and maxRuntimeMinutes > 0 at each
\* (re)start, a gosling that is running when a runtime timer of it fires is
\* force-terminated (logged, killed, completed, endTime set); and, the timers
\* firing fairly, a gosling that is running eventually is not running
\* (stated for the one gosling of the session).
C11_RuntimeCeilingEnds ==
    /\ [][\A id \in Ids :
            (RuntimeTimerFires(id) /\ goslings[id].status = "running")
            => /\ goslings'[id].status = "completed"
               /\ goslings'[id].endTime = "set"
               /\ io' = <<Call("log:runtimeLimit", id),
                          Call("kill", goslings[id].process)>>]_vars
    /\ ( /\ circuitBreaker.enabled
         /\ 1 \in Ids
         /\ goslings[1].status = "running" )
       ~> (1 \in Ids /\ goslings[1].status # "running")

\* The runtime timer has just force-terminated the running gosling.
C11_Witness ==
    /\ Len(goslings) = 1
    /\ Len(io) = 2
    /\ io[1] = Call("log:runtimeLimit", 1)
    /\ io[2] = Call("kill", goslings[1].process)
    /\ circuitBreaker.enabled
    /\ goslings[1].status = "completed"
    /\ goslings[1].endTime = "set"

\* ------------------------------------------------------------- C12
\* C12: a resume starts a fresh runtime budget: the timers scheduled for
\* earlier run segments are not carried over.  With the delay unchanged the
\* timers fire in the order scheduled and the last one scheduled is that of
\* the current segment, so a timer firing while another is pending belongs to
\* an earlier segment: it leaves a running gosling running.
C12_FreshRuntimeBudget ==
    [][\A id \in Ids :
         ( /\ RuntimeTimerFires(id)
           /\ runtimeTimers[id] > 1
           /\ goslings[id].status = "running" )
         => goslings'[id].status = "running"]_vars

\* ------------------------------------------------------------- C13
\* C13: at a tick of the idle check with the governor enabled and
\* autoTerminateIdleMinutes > 0, every running gosling whose lastOutputTime
\* is more than autoTerminateIdleMinutes old is killed and completed, and
\* every other gosling, running with more recent output or not running, is
\* left as it was and is sent no kill.
C13_IdleReaperTick ==
    [][( /\ TerminateIdleGoslings
         /\ circuitBreaker.enabled
         /\ circuitBreaker.autoTerminateIdleMinutes > 0 )
       => \A id \in Ids :
             LET g == goslings[id]
                 kill == Call("kill", g.process)
                 killed == \E i \in 1..Len(io') : io'[i] = kill
             IN IF /\ g.status = "running"
                   /\ now - g.lastOutputTime > circuitBreaker.autoTerminateIdleMinutes
                THEN /\ goslings'[id].status = "completed"
                     /\ goslings'[id].endTime = "set"
                     /\ killed
                ELSE /\ goslings'[id] = g
                     /\ g.process # Exited => ~killed]_vars

\* A tick has just reaped the first gosling, idle for too long, and left
\* the second, which is running with more recent output.
C13_Witness ==
    /\ Len(goslings) = 2
    /\ io = <<Call("log:idle", 1), Call("kill", goslings[1].process)>>
    /\ goslings[1].status = "completed"
    /\ now - goslings[1].lastOutputTime > circuitBreaker.autoTerminateIdleMinutes
    /\ goslings[2].status = "running"
    /\ now - goslings[2].lastOutputTime <= circuitBreaker.autoTerminateIdleMinutes

\* ------------------------------------------------------------- C14
\* C14: a gosling is never removed from the registry: no step (terminate,
\* terminateAll, ceiling enforcement, idle check, process event, shutdown)
\* makes the registry smaller, and after it every id still maps to the
\* record it mapped to, with its id, sessionName and prompt.
C14_RegistryKeepsRecords ==
    [][/\ Len(goslings') >= Len(goslings)
       /\ \A id \in Ids :
             /\ goslings'[id].id = id
             /\ goslings'[id].sessionName = goslings[id].sessionName
             /\ goslings'[id].prompt = goslings[id].prompt]_vars

\* shutdown has just ended a running gosling beside one that had ended
\* before: both are still in the registry under their ids.
C14_Witness ==
    /\ ret = Ret("shutdown", 0, "void")
    /\ Len(goslings) = 2
    /\ Len(io) = 1
    /\ goslings[1].id = 1
    /\ goslings[2].id = 2
    /\ goslings[1].status # "running"
    /\ goslings[2].status # "running"

\* ------------------------------------------------------------- C17
\* C17: terminateAllGoslings returns terminated = the number of goslings
\* that were running at the call and skipped = the number that were not, so
\* terminated + skipped = the registry size; when it returns no gosling is
\* running, and the kills it sent are as many as terminated.
C17_TerminateAllCounts ==
    [][TerminateAllGoslings
       => /\ ret'.op = "terminateAll"
          /\ ret'.terminated = ActiveCount(goslings)
          /\ ret'.skipped = Len(goslings) - ActiveCount(goslings)
          /\ ret'.terminated + ret'.skipped = Len(goslings')
          /\ ActiveCount(goslings') = 0
          /\ Len(io') = ret'.terminated]_vars

\* terminateAllGoslings has just ended one running gosling and skipped one.
C17_Witness ==
    /\ ret = RetCounts("terminateAll", 1, 1)
    /\ Len(goslings) = 2
    /\ Len(io) = 1
    /\ io[1].call = "kill"
    /\ ActiveCount(goslings) = 0

\* ------------------------------------------------------------- C15
\* C15: a runGoose call made while the running count equals
\* maxActiveGoslings fails with the circuit breaker error, and after any one
\* running gosling is terminated the next runGoose call succeeds (a call
\* whose spawn throws aside).
C15_CreateAfterTerminate ==
    /\ [][\A prompt \in Prompts :
            ( /\ RunGoose(prompt)
              /\ circuitBreaker.enabled
              /\ ActiveCount(goslings) = circuitBreaker.maxActiveGoslings )
            => ret' = Ret("runGoose", 0, "breaker") /\ goslings' = goslings]_vars
    /\ [][\A prompt \in Prompts :
            ( /\ RunGoose(prompt)
              /\ circuitBreaker.enabled
              /\ ret.op = "terminate" /\ ret.val = "true" /\ Len(io) = 1
              /\ ActiveCount(goslings) = circuitBreaker.maxActiveGoslings - 1
              /\ ret'.val # "spawnError" )
            => ret' = Ret("runGoose", Len(goslings) + 1, "gosling")]_vars

\* C15 as amended: the call made at the limit fails, and after one running
\* gosling is terminated the next call succeeds when the registry size is
\* below maxTotalGoslings, and fails with the circuit breaker error when it
\* is not (ended goslings stay in the registry and count for the total).
C15_CreateAfterTerminateBelowTotal ==
    /\ [][\A prompt \in Prompts :
            ( /\ RunGoose(prompt)
              /\ circuitBreaker.enabled
              /\ ActiveCount(goslings) = circuitBreaker.maxActiveGoslings )
            => ret' = Ret("runGoose", 0, "breaker") /\ goslings' = goslings]_vars
    /\ [][\A prompt \in Prompts :
            ( /\ RunGoose(prompt)
              /\ circuitBreaker.enabled
              /\ ret.op = "terminate" /\ ret.val = "true" /\ Len(io) = 1
              /\ ActiveCount(goslings) = circuitBreaker.maxActiveGoslings - 1
              /\ ret'.val # "spawnError" )
            => IF Len(goslings) < circuitBreaker.maxTotalGoslings
               THEN /\ ret' = Ret("runGoose", Len(goslings) + 1, "gosling")
                    /\ goslings'[Len(goslings) + 1].status = "running"
               ELSE ret' = Ret("runGoose", 0, "breaker")]_vars

\* With maxActiveGoslings 1, the second gosling has just been created while
\* the first, terminated and not yet exited, is still in the registry.
C15_Witness ==
    /\ ret = Ret("runGoose", 2, "gosling")
    /\ circuitBreaker.enabled
    /\ circuitBreaker.maxActiveGoslings = 1
    /\ goslings[1].status = "completed"
    /\ goslings[1].process \in Live(procs)
    /\ goslings[2].status = "running"

\* ------------------------------------------------------------- C16
\* C16: terminateGosling changes state only for a running gosling: for an
\* unknown id it returns false and changes nothing; for a gosling whose
\* status is completed or error it returns true, sends no kill and leaves
\* the record, with its status and endTime, as it was.
C16_TerminateOnlyRunning ==
    /\ [][\A id \in CallIds \ Ids :
            TerminateGosling(id)
            => /\ ret' = Ret("terminate", id, "false")
               /\ io' = <<>>
               /\ UNCHANGED <<goslings, procs, circuitBreaker, runtimeTimers,
                              pending, autoTerminateInterval>>]_vars
    /\ [][\A id \in Ids :
            (TerminateGosling(id) /\ goslings[id].status \in {"completed", "error"})
            => /\ ret' = Ret("terminate", id, "true")
               /\ io' = <<>>
               /\ goslings'[id].status = goslings[id].status
               /\ goslings'[id].endTime = goslings[id].endTime
               /\ UNCHANGED <<goslings, procs, circuitBreaker, runtimeTimers,
                              pending, autoTerminateInterval>>]_vars

\* terminateGosling has just returned true for a gosling in status error
\* whose child is alive: no kill was sent.
C16_Witness ==
    /\ ret = Ret("terminate", 1, "true")
    /\ io = <<>>
    /\ goslings[1].status = "error"
    /\ goslings[1].process \in Live(procs)

\* ------------------------------------------------------------- C18
\* C18: after shutdown no gosling has status running and the idle check's
\* interval is not active; and this stays so under every event, timer and
\* continuation of an earlier call, until a later call of runGoose,
\* sendPromptToGosling or updateCircuitBreakerConfig.
C18_ShutdownStopsAll ==
    /\ [][Shutdown
          => /\ ActiveCount(goslings') = 0
             /\ autoTerminateInterval' = 0
             /\ ret' = Ret("shutdown", 0, "void")]_vars
    /\ [][( /\ ActiveCount(goslings) = 0
            /\ autoTerminateInterval = 0
            /\ ret'.op \notin {"runGoose", "updateConfig"}
            /\ ~(ret'.op = "sendPrompt" /\ ret'.val = "pending") )
          => /\ ActiveCount(goslings') = 0
             /\ autoTerminateInterval' = 0]_vars

\* shutdown has just killed the running gosling and cleared the interval
\* that the configuration had scheduled.
C18_Witness ==
    /\ ret = Ret("shutdown", 0, "void")
    /\ Len(goslings) = 1
    /\ io = <<Call("kill", goslings[1].process)>>
    /\ goslings[1].status = "completed"
    /\ IdleCheckScheduled(circuitBreaker)
    /\ autoTerminateInterval = 0

\* ------------------------------------------------------------- C19
\* C19: while enabled is false no limit applies: no runGoose call is
\* rejected by the admission check, no prompt is rejected by the prompt
\* ceiling, no stdout append is truncated, and no step (runtime timer,
\* stdout handler, idle check) force-terminates a gosling, whenever its
\* timers were scheduled.
C19_DisabledNoLimits ==
    [][~circuitBreaker.enabled
       => /\ ret'.val # "breaker"
          /\ \A p \in ProcIds, text \in Chunks :
                StdoutData(p, text)
                => goslings'[procs[p].owner].output
                       = goslings[procs[p].owner].output \o text
          /\ \A i \in 1..Len(io') :
                io'[i].call \notin {"log:promptLimit", "log:outputLimit",
                                    "log:runtimeLimit", "log:idle"}]_vars

\* ------------------------------------------------------------- C20
\* C20: updateCircuitBreakerConfig(partial) changes exactly the supplied
\* fields: getCircuitBreakerConfig() then returns the supplied value of
\* every supplied field and the previous value of every other field.
C20_PartialUpdate ==
    [][\A config \in PartialConfigs :
         UpdateCircuitBreakerConfig(config)
         => /\ DOMAIN GetCircuitBreakerConfig(circuitBreaker') = ConfigFields
            /\ \A f \in ConfigFields :
                  GetCircuitBreakerConfig(circuitBreaker')[f]
                      = IF f \in DOMAIN config THEN config[f]
                        ELSE GetCircuitBreakerConfig(circuitBreaker)[f]]_vars

\* An update has set the two ceilings it supplied; the limits it did not
\* supply are those of the constructor.
C20_Witness ==
    /\ ret = Ret("updateConfig", 0, "void")
    /\ GetCircuitBreakerConfig(circuitBreaker).maxOutputSizeBytes = 1
    /\ GetCircuitBreakerConfig(circuitBreaker).maxPromptsPerGosling = 1
    /\ GetCircuitBreakerConfig(circuitBreaker).maxTotalGoslings = 2
    /\ GetCircuitBreakerConfig(circuitBreaker).maxActiveGoslings = 2
    /\ Len(goslings) = 1

\* ------------------------------------------------------------- C24
\* C24: the events of a child that a resume has replaced do not affect the
\* resumed gosling: a late exit or error event of a child that is no longer
\* the gosling's process leaves a running gosling running with endTime
\* unset.
C24_StaleEventsIgnored ==
    /\ [][\A p \in ProcIds, code \in ExitCodes :
            ( /\ ExitEvent(p, code)
              /\ goslings[procs[p].owner].process # p
              /\ goslings[procs[p].owner].status = "running" )
            => /\ goslings'[procs[p].owner].status = "running"
               /\ goslings'[procs[p].owner].endTime = "undefined"]_vars
    /\ [][\A p \in ProcIds :
            ( /\ ErrorEvent(p)
              /\ goslings[procs[p].owner].process # p
              /\ goslings[procs[p].owner].status = "running" )
            => /\ goslings'[procs[p].owner].status = "running"
               /\ goslings'[procs[p].owner].endTime = "undefined"]_vars

\* ------------------------------------------------------------- C25
\* C25: once the status of a gosling is completed or error, the only change
\* it undergoes is to running, through the resume of sendPromptToGosling:
\* no event, terminate call or timer turns completed into error or error
\* into completed.
C25_StatusOrdered ==
    [][\A id \in Ids :
         goslings[id].status \in {"completed", "error"}
         => \/ goslings'[id].status = goslings[id].status
            \/ /\ goslings'[id].status = "running"
               /\ ret' = Ret("sendPrompt", id, "pending")]_vars

\* ------------------------------------------------------------- C28
\* C28: in every reachable state the endTime of a gosling is set if and
\* only if its status is not running.
C28_EndTimeIffEnded ==
    \A id \in Ids :
       (goslings[id].endTime = "set") <=> (goslings[id].status # "running")

\* ------------------------------------------------------------- C30
\* C30: a sendPromptToGosling call that returns false leaves the gosling as
\* it was before the call and has spawned no process.  A call that returns
\* within one step changes neither the registry nor the processes; a call
\* that continues after the settle delay has spawned a child and rebound the
\* gosling at its resume, so it does not return false.
C30_FalseLeavesRecord ==
    /\ [][\A id \in CallIds, prompt \in FollowUps :
            (SendPromptToGosling(id, prompt) /\ ret'.val = "false")
            => goslings' = goslings /\ procs' = procs]_vars
    /\ [][SendPromptSettled => ret'.val # "false"]_vars

C29_ResumeRestartsIdleClock ==
    [][\A id \in Ids :
         ( /\ TerminateIdleGoslings
           /\ ret = Ret("sendPrompt", id, "pending")
           /\ circuitBreaker.autoTerminateIdleMinutes > 0
           /\ goslings[id].status = "running" )
         => goslings'[id].status = "running"]_vars

\* ------------------------------------------------------------- C26
\* C26: promptHistory is append-only and in the order the sendPromptToGosling
\* calls were made: no step removes or reorders entries, and a call that
\* was suspended in the settle delay of its resume records its prompt right
\* after the prompts the gosling had when the call was made, so no prompt
\* of a later call stands before it.
C26_HistoryInCallOrder ==
    /\ [][\A id \in Ids :
            IsPrefix(goslings[id].promptHistory, goslings'[id].promptHistory)]_vars
    /\ [][(SendPromptSettled /\ ret'.val = "true")
            => Len(goslings[Head(pending).id].promptHistory)
                 = Head(pending).historyLen]_vars

\* ------------------------------------------------------------- C21
\* C21: getGoslingOutput without fullOutput, for lines = the output split on
\* newline: a negative offset counts as 0, an offset >= the number of lines
\* is clamped to max(0, number of lines - 1), a limit <= 0 becomes 100; the
\* text is the lines [offset, min(offset + limit, number of lines)) joined
\* by newline, startLine is the clamped offset, endLine that minimum,
\* totalLines the number of lines and hasMore = (endLine < totalLines).
C21_PageWindow ==
    ( /\ ret.op = "getGoslingOutput"
      /\ ret.val = "page"
      /\ ~ret.fullOutput )
    => LET lines == SplitLines(goslings[ret.id].output)
           lineCount == Len(lines)
           offset == IF ret.offset < 0 THEN 0
                     ELSE IF ret.offset >= lineCount
                          THEN (IF lineCount - 1 > 0 THEN lineCount - 1 ELSE 0)
                          ELSE ret.offset
           limit == IF ret.limit <= 0 THEN 100 ELSE ret.limit
           endLine == IF offset + limit <= lineCount THEN offset + limit
                      ELSE lineCount
       IN /\ ret.page.text = JoinLines([i \in 1..(endLine - offset) |-> lines[offset + i]])
          /\ ret.page.startLine = offset
          /\ ret.page.endLine = endLine
          /\ ret.page.totalLines = lineCount
          /\ ret.page.hasMore = (endLine < lineCount)

\* A call with an offset past the last line and a limit of 0 on an output of
\* three lines returned the last line alone.
C21_Witness ==
    /\ ret.op = "getGoslingOutput"
    /\ ret.val = "page"
    /\ ~ret.fullOutput
    /\ goslings[1].output = <<"a", NL, NL, "a">>
    /\ ret.offset > 3
    /\ ret.limit = 0
    /\ ret.page = OutputPage(<<"a">>, 3, 2, 3, FALSE)

\* ------------------------------------------------------------- C22
\* C22 as stated: for an output that does not change between the calls and
\* any N, the text of getGoslingOutput(id, 0, N, false) is a strict prefix,
\* by lines, of the text of getGoslingOutput(id, 0, N, true).
C22_PageStrictPrefixOfFull ==
    ( /\ ret.op = "getGoslingOutput"
      /\ ret.val = "page"
      /\ ~ret.fullOutput
      /\ ret.offset = 0 )
    => LET paged == SplitLines(ret.page.text)
           full == SplitLines(GetGoslingOutput(goslings[ret.id], 0, ret.limit, TRUE).text)
       IN IsPrefix(paged, full) /\ paged # full

\* C22 amended: the text of getGoslingOutput(id, 0, N, false) is a prefix, by
\* lines, of the text of getGoslingOutput(id, 0, N, true); the two are
\* equal exactly when the page reaches the last line, and the prefix is
\* strict otherwise.
C22_PagePrefixOfFull ==
    ( /\ ret.op = "getGoslingOutput"
      /\ ret.val = "page"
      /\ ~ret.fullOutput
      /\ ret.offset = 0 )
    => LET paged == SplitLines(ret.page.text)
           full == SplitLines(GetGoslingOutput(goslings[ret.id], 0, ret.limit, TRUE).text)
       IN /\ IsPrefix(paged, full)
          /\ (paged = full) <=> (ret.page.endLine = ret.page.totalLines)

\* The first two lines of an output of three lines were asked for.
C22_Witness ==
    /\ ret.op = "getGoslingOutput"
    /\ ret.val = "page"
    /\ ~ret.fullOutput
    /\ ret.offset = 0
    /\ ret.limit = 2
    /\ goslings[1].output = <<"a", NL, "a", NL>>
    /\ ret.page.text = <<"a", NL, "a">>
    /\ ret.page.hasMore

\* ------------------------------------------------------------- C23
\* C23: getGoslingActivityStatus is a function of the gosling and the clock:
\* a status other than running gives IDLE without idleTimeMs; a running
\* gosling gives WORKING when now - lastOutputTime is below the threshold
\* and otherwise IDLE with idleTimeMs = now - lastOutputTime, so a reported
\* idleTimeMs is never below the threshold.
C23_ActivityClassified ==
    ( /\ ret.op = "getGoslingActivityStatus"
      /\ ret.val = "activity" )
    => LET g == goslings[ret.id]
           sinceOutput == now - g.lastOutputTime
       IN /\ g.status # "running"
             => ret.activity = Activity("IDLE", FALSE, 0)
          /\ (g.status = "running" /\ sinceOutput < ret.idleThresholdMs)
             => ret.activity = Activity("WORKING", FALSE, 0)
          /\ (g.status = "running" /\ sinceOutput >= ret.idleThresholdMs)
             => ret.activity = Activity("IDLE", TRUE, sinceOutput)
          /\ ret.activity.hasIdleTimeMs
             => ret.activity.idleTimeMs >= ret.idleThresholdMs

\* A running gosling that printed at time 1 was asked about at time 2 with a
\* threshold of 1: IDLE with an idleTimeMs equal to the threshold.
C23_Witness ==
    /\ ret.op = "getGoslingActivityStatus"
    /\ ret.val = "activity"
    /\ goslings[1].status = "running"
    /\ goslings[1].lastOutputTime = 1
    /\ now = 2
    /\ ret.idleThresholdMs = 1
    /\ ret.activity = Activity("IDLE", TRUE, 1)

\* ------------------------------------------------------------- C31
\* C31: every exit event with code 0 sets the status of the gosling to
\* completed and every exit event with another code sets it to error; every
\* error event sets it to error and appends the error message to its error
\* buffer; stderr data is appended to the error buffer only, no output
\* changes.
C31_EventsSetStatus ==
    /\ [][\A p \in ProcIds, code \in ExitCodes :
            ExitEvent(p, code)
            => goslings'[procs[p].owner].status
                 = (IF code = 0 THEN "completed" ELSE "error")]_vars
    /\ [][\A p \in ProcIds :
            ErrorEvent(p)
            => /\ goslings'[procs[p].owner].status = "error"
               /\ goslings'[procs[p].owner].error
                    = Append(goslings[procs[p].owner].error, "message")]_vars
    /\ [][\A p \in ProcIds :
            StderrData(p)
            => /\ goslings'[procs[p].owner].error
                    = Append(goslings[procs[p].owner].error, "stderr")
               /\ \A id \in Ids : goslings'[id].output = goslings[id].output]_vars

\* The child of a gosling that had printed on stdout and on stderr has
\* exited with a code other than 0.
C31_Witness ==
    /\ Len(goslings) >= 1
    /\ goslings[1].status = "error"
    /\ goslings[1].endTime = "set"
    /\ goslings[1].process = Exited
    /\ goslings[1].output = <<"a">>
    /\ goslings[1].error = <<"stderr">>

\* ------------------------------------------------------------- C32
\* C32: the interval of the idle check is replaced, not layered: at most one
\* interval is active at any time, and after the constructor and after every
\* updateCircuitBreakerConfig an interval is active if and only if enabled
\* is true and autoTerminateIdleMinutes > 0.
C32_OneReaperInterval ==
    /\ (autoTerminateInterval >= 1)
         <=> (circuitBreaker.enabled /\ circuitBreaker.autoTerminateIdleMinutes > 0)
    /\ [](autoTerminateInterval <= 1)
    /\ [][ret'.op = "updateConfig"
            => ((autoTerminateInterval' >= 1)
                  <=> ( /\ circuitBreaker'.enabled
                        /\ circuitBreaker'.autoTerminateIdleMinutes > 0 ))]_vars

\* updateCircuitBreakerConfig has just run for a manager whose ceilings had
\* been changed by an earlier call: one interval is active.
C32_Witness ==
    /\ ret = Ret("updateConfig", 0, "void")
    /\ circuitBreaker.enabled
    /\ circuitBreaker.autoTerminateIdleMinutes = 1
    /\ circuitBreaker.maxOutputSizeBytes = 1
    /\ autoTerminateInterval = 1
    /\ now = 2

\* ------------------------------------------------------------- C33
\* C33: updateCircuitBreakerConfig is not retroactive: the call changes no
\* gosling (no status change, no termination, no truncation) and signals no
\* process, even when a new ceiling is below the output size or the prompt
\* count of a running gosling; the new ceiling is applied at the next
\* output event, which then ends the gosling.
C33_UpdateNotRetroactive ==
    /\ [][\A config \in PartialConfigs :
            UpdateCircuitBreakerConfig(config)
            => /\ goslings' = goslings
               /\ procs' = procs
               /\ io' = <<>>]_vars
    /\ [][\A p \in ProcIds, text \in Chunks :
            ( /\ StdoutData(p, text)
              /\ circuitBreaker.enabled
              /\ goslings[procs[p].owner].outputSize + Len(text)
                   > circuitBreaker.maxOutputSizeBytes )
            => goslings'[procs[p].owner].status # "running"]_vars

\* The ceilings have just been lowered below the output size and the prompt
\* count of a gosling, which is still running.
C33_Witness ==
    /\ ret = Ret("updateConfig", 0, "void")
    /\ Len(goslings) = 1
    /\ circuitBreaker.enabled
    /\ goslings[1].status = "running"
    /\ goslings[1].outputSize = 2
    /\ circuitBreaker.maxOutputSizeBytes = 1
    /\ goslings[1].promptCount = 2
    /\ circuitBreaker.maxPromptsPerGosling = 1

\* ------------------------------------------------------------- C34
\* C34: a runGoose call whose spawn throws leaves the registry as it was,
\* with no process started; an error event of a child that had started
\* leaves its gosling in the registry, with status error; and no step
\* takes a gosling out of the registry.
C34_FailedCreate ==
    /\ [][\A prompt \in Prompts :
            (RunGoose(prompt) /\ ret'.val = "spawnError")
            => goslings' = goslings /\ procs' = procs]_vars
    /\ [][\A p \in ProcIds :
            ErrorEvent(p)
            => /\ Len(goslings') = Len(goslings)
               /\ goslings'[procs[p].owner].status = "error"]_vars
    /\ [][Len(goslings') >= Len(goslings)]_vars

\* The child of the first gosling had started and failed with an error
\* event; the spawn of a second runGoose call has just thrown.
C34_Witness ==
    /\ ret = Ret("runGoose", 0, "spawnError")
    /\ Len(goslings) = 1
    /\ goslings[1].status = "error"
    /\ goslings[1].error = <<"message">>
    /\ goslings[1].endTime = "undefined"

\* ------------------------------------------------------------- C35
\* C35: in every reachable state the outputLineCount of a gosling equals the
\* number of newline characters in its output, also after an append that
\* was cut at the output ceiling.
C35_LineCountIsNewlines ==
    \A id \in Ids : goslings[id].outputLineCount = CountNewlines(goslings[id].output)

\* ------------------------------------------------------------- C36
\* C36: for an unchanged output, the totalLines that getGoslingOutput
\* reports with fullOutput equals the totalLines it reports without, and
\* the endLine of the full result equals that totalLines.
C36_FullTotalLines ==
    ( /\ ret.op = "getGoslingOutput"
      /\ ret.val = "page" )
    => LET full == GetGoslingOutput(goslings[ret.id], ret.offset, ret.limit, TRUE)
           paged == GetGoslingOutput(goslings[ret.id], ret.offset, ret.limit, FALSE)
       IN /\ full.totalLines = paged.totalLines
          /\ full.endLine = paged.totalLines

\* ------------------------------------------------------------- C37
\* C37: in every reachable state the promptCount of a gosling equals the
\* length of its promptHistory: both are 1 after runGoose, both grow by one
\* with every accepted sendPromptToGosling, and a resume resets neither.
C37_PromptCountIsHistoryLength ==
    /\ [](\A id \in Ids : goslings[id].promptCount = Len(goslings[id].promptHistory))
    /\ [][\A prompt \in Prompts :
            (RunGoose(prompt) /\ ret'.val = "gosling")
            => /\ goslings'[ret'.id].promptCount = 1
               /\ goslings'[ret'.id].promptHistory = <<prompt>>]_vars
    /\ [][\A id \in Ids :
            IF ret'.op = "sendPrompt" /\ ret'.id = id /\ ret'.val = "true"
            THEN /\ goslings'[id].promptCount = goslings[id].promptCount + 1
                 /\ Len(goslings'[id].promptHistory) = Len(goslings[id].promptHistory) + 1
            ELSE /\ goslings'[id].promptCount = goslings[id].promptCount
                 /\ goslings'[id].promptHistory = goslings[id].promptHistory]_vars

\* A gosling that was terminated and resumed has accepted the prompt of the
\* resume after an earlier follow-up: three prompts, counted three.
C37_Witness ==
    /\ Len(goslings) = 1
    /\ ret = Ret("sendPrompt", 1, "true")
    /\ pending = <<>>
    /\ goslings[1].process = 2
    /\ procs[1].owner = 1
    /\ goslings[1].promptCount = 3
    /\ goslings[1].promptHistory = <<"p", "q", "q">>

\* ------------------------------------------------------------- C38
\* C38: paging in sequence reconstructs the output: for an unchanged output
\* and a limit > 0, the requests from offset 0 on, each at the endLine of
\* the page before while hasMore is true, end after at most as many
\* requests as there are lines; each page starts where the page before
\* ended, the last ends at the last line, and the texts of the pages joined
\* by newline are the output.
C38_PagingReconstructs ==
    ( /\ ret.op = "getGoslingOutput"
      /\ ret.val = "page"
      /\ ret.limit > 0 )
    => LET g == goslings[ret.id]
           lineCount == Len(SplitLines(g.output))
           pages == SequentialPages(g, 0, ret.limit, lineCount)
           last == pages[Len(pages)]
       IN /\ ~last.hasMore
          /\ pages[1].startLine = 0
          /\ \A k \in 1..(Len(pages) - 1) :
                /\ pages[k + 1].startLine = pages[k].endLine
                /\ pages[k].endLine > pages[k].startLine
          /\ last.endLine = lineCount
          /\ JoinLines([k \in 1..Len(pages) |-> pages[k].text]) = g.output

\* An output of three lines, the second of them empty, is read in three
\* pages of one line.
C38_Witness ==
    /\ ret.op = "getGoslingOutput"
    /\ ret.val = "page"
    /\ ret.limit = 1
    /\ goslings[1].output = <<"a", NL, NL, "a">>
    /\ Len(SequentialPages(goslings[1], 0, 1, 3)) = 3
    /\ SequentialPages(goslings[1], 0, 1, 3)[2].text = <<>>
    /\ SequentialPages(goslings[1], 0, 1, 3)[3].text = <<"a">>

\* ------------------------------------------------------------- C39
\* C39: events and failures are scoped to one gosling: a stdout, stderr,
\* exit or error event of a gosling's child, a termination of it by the
\* output ceiling or by its runtime timer, and terminateGosling on it change
\* its record only: the record of every other gosling, the membership of
\* the registry and the governor's configuration stay as they were.
C39_EventsScopedToSession ==
    /\ [][\A p \in ProcIds :
            ( \/ \E text \in Chunks : StdoutData(p, text)
              \/ StderrData(p)
              \/ \E code \in ExitCodes : ExitEvent(p, code)
              \/ ErrorEvent(p) )
            => /\ Len(goslings') = Len(goslings)
               /\ \A id \in Ids \ {procs[p].owner} : goslings'[id] = goslings[id]
               /\ circuitBreaker' = circuitBreaker]_vars
    /\ [][\A id \in Ids :
            (TerminateGosling(id) \/ RuntimeTimerFires(id))
            => /\ Len(goslings') = Len(goslings)
               /\ \A other \in Ids \ {id} : goslings'[other] = goslings[other]
               /\ circuitBreaker' = circuitBreaker]_vars

\* The output ceiling has just ended the first of two goslings; the second,
\* which has printed too, is running.
C39_Witness ==
    /\ Len(goslings) = 2
    /\ io # <<>>
    /\ io[1] = Call("log:outputLimit", 1)
    /\ goslings[1].status = "completed"
    /\ goslings[2].status = "running"
    /\ goslings[2].output = <<"a">>

====
